---- MODULE Spec2Model ----
(***************************************************************************)
(* Model of the economic dashboard's data manager (src/data_manager.py)    *)
(* and of the two buttons of the dashboard that write files                *)
(* (src/streamlit_app.py): per-kind CSV files, the default catalog, the    *)
(* FRED fetchers, the refresh operations that overlay the hand-curated     *)
(* override columns on freshly fetched data, and the status query.         *)
(*                                                                         *)
(* Text is a sequence of one-character strings, so that writing a value    *)
(* to CSV and parsing it back are computed, not assumed.  A fractional     *)
(* number is a pair (m, e) standing for m / 10^e.                          *)
(***************************************************************************)
EXTENDS Integers, Sequences, FiniteSets, TLC

\* F applied to the value of e, with e evaluated once
Bind(e, F(_)) == CHOOSE y \in {F(x) : x \in {e}} : TRUE

\* ------------------------------------------------------------------------
\* Text and cell values
\* ------------------------------------------------------------------------

DIGITS == <<"0", "1", "2", "3", "4", "5", "6", "7", "8", "9">>

DigitChar(d) == DIGITS[d + 1]

DigitSet == {DIGITS[i] : i \in 1..10}

DigitOf == [c \in DigitSet |-> CHOOSE d \in 0..9 : DIGITS[d + 1] = c]

IsDigit(c) == c \in DigitSet

DigitVal(c) == DigitOf[c]

RECURSIVE Pow10(_)
Pow10(e) == IF e = 0 THEN 1 ELSE 10 * Pow10(e - 1)

Abs(n) == IF n < 0 THEN -n ELSE n

RECURSIVE NatText(_)
NatText(n) == IF n < 10 THEN <<DigitChar(n)>>
              ELSE NatText(n \div 10) \o <<DigitChar(n % 10)>>

\* n written with exactly w digits (leading zeros)
RECURSIVE PadText(_, _)
PadText(n, w) == IF w = 0 THEN <<>>
                 ELSE PadText(n \div 10, w - 1) \o <<DigitChar(n % 10)>>

RECURSIVE NatVal(_)
NatVal(t) == IF t = <<>> THEN 0
             ELSE 10 * NatVal(SubSeq(t, 1, Len(t) - 1)) + DigitVal(t[Len(t)])

\* The cell values of a DataFrame: None/NaN, an integer, a float m / 10^e
\* (e >= 1, no trailing zero beyond the first decimal), a text.
Null == [t |-> "null"]
IntV(n) == [t |-> "int", n |-> n]
FloatV(m, e) == [t |-> "float", m |-> m, e |-> e]
StrV(s) == [t |-> "str", s |-> s]

IsNull(v) == v.t = "null"

RECURSIVE Canon(_, _)
Canon(m, e) == IF e = 0 THEN FloatV(m * 10, 1)
               ELSE IF e > 1 /\ m % 10 = 0 THEN Canon(m \div 10, e - 1)
               ELSE FloatV(m, e)

\* str(int), repr(float) as DataFrame.to_csv writes them
IntText(n) == IF n < 0 THEN <<"-">> \o NatText(-n) ELSE NatText(n)

FloatText(m, e) ==
    (IF m < 0 THEN <<"-">> ELSE <<>>)
    \o NatText(Abs(m) \div Pow10(e)) \o <<".">> \o PadText(Abs(m) % Pow10(e), e)

\* One cell as to_csv writes it: a missing cell is the empty field.
CellText(v) ==
    CASE v.t = "null" -> <<>>
      [] v.t = "int" -> IntText(v.n)
      [] v.t = "float" -> FloatText(v.m, v.e)
      [] v.t = "str" -> v.s

\* The fields read_csv takes for missing (its default na_values; the ones
\* the bounded texts can spell).
NaTexts == {<<>>, <<"N", "A">>, <<"n", "a", "n">>, <<"N", "a", "N">>,
            <<"n", "/", "a">>, <<"N", "/", "A">>, <<"n", "u", "l", "l">>,
            <<"N", "U", "L", "L">>, <<"N", "o", "n", "e">>}

IsNaText(t) == Len(t) <= 4 /\ t \in NaTexts

Unsigned(t) == IF t # <<>> /\ t[1] \in {"-", "+"} THEN SubSeq(t, 2, Len(t)) ELSE t

Negative(t) == t # <<>> /\ t[1] = "-"

IsIntText(t) ==
    LET b == Unsigned(t)
    IN  b # <<>> /\ \A i \in 1..Len(b) : IsDigit(b[i])

IntOfText(t) == IF Negative(t) THEN -NatVal(Unsigned(t)) ELSE NatVal(Unsigned(t))

DotPos(b) == CHOOSE i \in 1..Len(b) : b[i] = "."

IsFloatText(t) ==
    LET b == Unsigned(t)
    IN  /\ Cardinality({i \in 1..Len(b) : b[i] = "."}) = 1
        /\ Len(b) >= 2
        /\ \A i \in 1..Len(b) : IsDigit(b[i]) \/ b[i] = "."

FloatOfText(t) ==
    LET b == Unsigned(t)
        p == DotPos(b)
        ip == SubSeq(b, 1, p - 1)
        fp == SubSeq(b, p + 1, Len(b))
        mag == NatVal(ip) * Pow10(Len(fp)) + NatVal(fp)
    IN  Canon(IF Negative(t) THEN -mag ELSE mag, Len(fp))

IsNumText(t) == IsIntText(t) \/ IsFloatText(t)

NumOfText(t) == IF IsIntText(t) THEN Canon(IntOfText(t), 0) ELSE FloatOfText(t)

\* ------------------------------------------------------------------------
\* Datasets (DataFrames) and CSV files
\* ------------------------------------------------------------------------

\* A dataset: column names in order, rows in order, each row one value per
\* column.  A file: the same shape with every cell as text.
DF(cols, rows) == [cols |-> cols, rows |-> rows]

\* Python's None
None == [t |-> "None"]

\* No file of that name / a file whose content does not parse as a table
ABSENT == [file |-> "absent"]

MALFORMED == [file |-> "malformed"]

ColIndex(cols, name) ==
    IF \E j \in 1..Len(cols) : cols[j] = name
    THEN CHOOSE j \in 1..Len(cols) : cols[j] = name
    ELSE 0

HasCol(d, name) == ColIndex(d.cols, name) # 0

Column(d, j) == [i \in 1..Len(d.rows) |-> d.rows[i][j]]

\* df.to_csv(filepath, index=False): the header and every row as text
to_csv(df) ==
    [cols |-> df.cols,
     rows |-> [i \in 1..Len(df.rows) |->
                  [j \in 1..Len(df.cols) |-> CellText(df.rows[i][j])]]]

\* What one field can be read as
FieldClass(t) ==
    IF IsNaText(t) THEN "na"
    ELSE IF IsIntText(t) THEN "int"
    ELSE IF IsFloatText(t) THEN "float"
    ELSE "text"

\* The dtype read_csv infers for one column of fields: int64 when every
\* field is an integer, float64 when every field is a number or missing,
\* object (text) otherwise
ColType(texts) ==
    LET classes == {FieldClass(texts[i]) : i \in 1..Len(texts)}
    IN  IF classes \subseteq {"na"} THEN "empty"
        ELSE IF classes = {"int"} THEN "int"
        ELSE IF classes \subseteq {"int", "float", "na"} THEN "float"
        ELSE "object"

ParseCell(text, type) ==
    IF IsNaText(text) THEN Null
    ELSE CASE type = "int" -> IntV(IntOfText(text))
           [] type = "float" -> NumOfText(text)
           [] OTHER -> StrV(text)

\* pd.read_csv(filepath): every column typed by inference over its fields
read_csv(file) ==
    Bind([j \in 1..Len(file.cols) |-> ColType(Column(file, j))],
         LAMBDA types :
            [cols |-> file.cols,
             rows |-> [i \in 1..Len(file.rows) |->
                          [j \in 1..Len(file.cols) |->
                              ParseCell(file.rows[i][j], types[j])]]])

\* ------------------------------------------------------------------------
\* Period labels
\* ------------------------------------------------------------------------

MONTHS == << <<"J", "a", "n">>, <<"F", "e", "b">>, <<"M", "a", "r">>,
             <<"A", "p", "r">>, <<"M", "a", "y">>, <<"J", "u", "n">>,
             <<"J", "u", "l">>, <<"A", "u", "g">>, <<"S", "e", "p">>,
             <<"O", "c", "t">>, <<"N", "o", "v">>, <<"D", "e", "c">> >>

\* str(date.year)[2:] for a four-digit year
YearSuffix(year) == SubSeq(NatText(year), 3, Len(NatText(year)))

\* A quarter computed as month // 3 + 1
format_quarter_late(date) ==
    LET q == date.month \div 3 + 1
    IN  <<"Q">> \o NatText(q) \o <<" ">> \o YearSuffix(date.year)

\* f"Q{q} {str(date.year)[2:]}" with q = (date.month - 1) // 3 + 1
format_quarter(date) ==
    LET q == (date.month - 1) \div 3 + 1
    IN  <<"Q">> \o NatText(q) \o <<" ">> \o YearSuffix(date.year)

\* f"{months[date.month-1]} {str(date.year)[2:]}"
format_period(date) == MONTHS[date.month] \o <<" ">> \o YearSuffix(date.year)

\* The literal labels of the default catalog: 'Q1 20', 'Jan 19', '2019'
QL(q, yy) == <<"Q", DigitChar(q), " ">> \o PadText(yy, 2)

ML(m, yy) == MONTHS[m] \o <<" ">> \o PadText(yy, 2)

YL(y) == NatText(y)

\* A literal with one decimal (x in tenths), with two decimals (hundredths)
F1(x) == Canon(x, 1)

F2(x) == Canon(x, 2)

\* ------------------------------------------------------------------------
\* Kinds, files, schemas
\* ------------------------------------------------------------------------

Kinds == {"gdp", "sentiment", "expectations", "unemployment", "housing", "vehicle"}

AutoKinds == {"gdp", "unemployment", "sentiment"}

\* The columns of each kind: the key column first.
Schema(k) ==
    CASE k = "gdp" -> <<"Quarter", "GDP", "Disputed">>
      [] k = "sentiment" -> <<"Period", "Michigan", "Conference Board">>
      [] k = "expectations" -> <<"Month", "Value">>
      [] k = "unemployment" ->
            <<"Year", "Overall", "Young Grads (22-27)", "Recent Grads">>
      [] k = "housing" ->
            <<"Year", "Median Price ($K)", "Price-to-Income Ratio",
              "Cost as % of Income", "First-Time Buyer Age">>
      [] k = "vehicle" ->
            <<"Year", "Avg Transaction Price", "Models Under $25K",
              "Avg Monthly Payment">>

KeyCol(k) ==
    CASE k = "gdp" -> "Quarter"
      [] k = "sentiment" -> "Period"
      [] k = "expectations" -> "Month"
      [] OTHER -> "Year"

\* The columns a refresh carries over from the prior file
OverrideCols(k) ==
    CASE k = "gdp" -> <<"Disputed">>
      [] k = "unemployment" -> <<"Young Grads (22-27)", "Recent Grads">>
      [] k = "sentiment" -> <<"Conference Board">>
      [] OTHER -> <<>>

\* ------------------------------------------------------------------------
\* Default catalog
\* ------------------------------------------------------------------------

Zip3(a, b, c) == [i \in 1..Len(a) |-> <<a[i], b[i], c[i]>>]

Zip2(a, b) == [i \in 1..Len(a) |-> <<a[i], b[i]>>]

Zip4(a, b, c, d) == [i \in 1..Len(a) |-> <<a[i], b[i], c[i], d[i]>>]

Zip5(a, b, c, d, e) == [i \in 1..Len(a) |-> <<a[i], b[i], c[i], d[i], e[i]>>]

StrCol(labels) == [i \in 1..Len(labels) |-> StrV(labels[i])]

F1Col(xs) == [i \in 1..Len(xs) |-> F1(xs[i])]

F2Col(xs) == [i \in 1..Len(xs) |-> F2(xs[i])]

IntCol(xs) == [i \in 1..Len(xs) |-> IntV(xs[i])]

Years7 == StrCol(<<YL(2019), YL(2020), YL(2021), YL(2022), YL(2023), YL(2024), YL(2025)>>)

get_default_gdp_data ==
    DF(<<"Quarter", "GDP", "Disputed">>,
       Zip3(StrCol(<<QL(1, 20), QL(2, 20), QL(3, 20), QL(4, 20),
                     QL(1, 21), QL(2, 21), QL(3, 21), QL(4, 21),
                     QL(1, 22), QL(2, 22), QL(3, 22), QL(4, 22),
                     QL(1, 23), QL(2, 23), QL(3, 23), QL(4, 23),
                     QL(1, 24), QL(2, 24), QL(3, 24), QL(4, 24),
                     QL(1, 25), QL(2, 25), QL(3, 25)>>),
            F1Col(<<-53, -280, 348, 40, 63, 70, 23, 69,
                    -16, -6, 32, 26, 22, 21, 49, 34,
                    14, 30, 28, 23, -5, 38, 43>>),
            [i \in 1..23 |-> IF i <= 21 THEN Null ELSE IF i = 22 THEN F1(10) ELSE F1(8)]))

get_default_sentiment_data ==
    DF(<<"Period", "Michigan", "Conference Board">>,
       Zip3(StrCol(<<ML(1, 19), ML(7, 19), ML(12, 19), ML(1, 20), ML(4, 20),
                     ML(7, 20), ML(12, 20), ML(1, 21), ML(7, 21), ML(12, 21),
                     ML(1, 22), ML(6, 22), ML(12, 22), ML(1, 23), ML(7, 23),
                     ML(12, 23), ML(1, 24), ML(7, 24), ML(12, 24), ML(1, 25),
                     ML(4, 25), ML(7, 25), ML(12, 25)>>),
            F1Col(<<912, 984, 993, 998, 718, 725, 807, 790, 812, 706,
                    672, 500, 597, 649, 716, 697, 790, 664, 740,
                    732, 522, 617, 529>>),
            F1Col(<<1217, 1358, 1265, 1304, 857, 917, 871, 871, 1251, 1152,
                    1111, 987, 1090, 1060, 1140, 1080, 1109, 1019, 1047,
                    1053, 860, 954, 891>>)))

get_default_expectations_data ==
    DF(<<"Month", "Value">>,
       Zip2(StrCol(<<ML(1, 24), ML(2, 24), ML(3, 24), ML(4, 24), ML(5, 24),
                     ML(6, 24), ML(7, 24), ML(8, 24), ML(9, 24), ML(10, 24),
                     ML(11, 24), ML(12, 24), ML(1, 25), ML(2, 25), ML(3, 25),
                     ML(4, 25), ML(5, 25), ML(6, 25), ML(7, 25), ML(8, 25),
                     ML(9, 25), ML(10, 25), ML(11, 25), ML(12, 25)>>),
            F1Col(<<838, 798, 774, 688, 728, 790, 820, 825,
                    824, 891, 860, 781, 767, 729, 652, 544,
                    728, 715, 734, 756, 737, 707, 707, 707>>)))

get_default_unemployment_data ==
    DF(<<"Year", "Overall", "Young Grads (22-27)", "Recent Grads">>,
       Zip4(Years7,
            F1Col(<<35, 81, 54, 36, 36, 40, 46>>),
            F2Col(<<325, 650, 500, 350, 380, 420, 459>>),
            F1Col(<<50, 90, 75, 55, 60, 75, 97>>)))

get_default_housing_data ==
    DF(<<"Year", "Median Price ($K)", "Price-to-Income Ratio",
         "Cost as % of Income", "First-Time Buyer Age">>,
       Zip5(Years7,
            IntCol(<<313, 329, 386, 449, 431, 420, 417>>),
            F1Col(<<41, 43, 46, 52, 51, 50, 50>>),
            F1Col(<<350, 370, 400, 480, 470, 470, 477>>),
            IntCol(<<33, 34, 36, 38, 39, 39, 40>>)))

get_default_vehicle_data ==
    DF(<<"Year", "Avg Transaction Price", "Models Under $25K", "Avg Monthly Payment">>,
       Zip4(Years7,
            IntCol(<<36718, 40107, 47000, 49929, 48528, 47500, 49814>>),
            IntCol(<<30, 25, 20, 12, 10, 10, 8>>),
            IntCol(<<554, 575, 641, 717, 726, 734, 754>>)))

DefaultData(k) ==
    CASE k = "gdp" -> get_default_gdp_data
      [] k = "sentiment" -> get_default_sentiment_data
      [] k = "expectations" -> get_default_expectations_data
      [] k = "unemployment" -> get_default_unemployment_data
      [] k = "housing" -> get_default_housing_data
      [] k = "vehicle" -> get_default_vehicle_data

\* ------------------------------------------------------------------------
\* Storage: one file per kind in the data directory
\* ------------------------------------------------------------------------

Filename(k) ==
    CASE k = "gdp" -> "gdp_data.csv"
      [] k = "sentiment" -> "sentiment_data.csv"
      [] k = "expectations" -> "expectations_data.csv"
      [] k = "unemployment" -> "unemployment_data.csv"
      [] k = "housing" -> "housing_data.csv"
      [] k = "vehicle" -> "vehicle_data.csv"

\* What a call gives back: a value, or an exception with str(e) as a
\* sequence of strings.
Ret(v) == [exc |-> FALSE, val |-> v]

Raise(detail) == [exc |-> TRUE, detail |-> detail]

\* A load_csv that answers a missing file with the kind's default dataset
load_csv_or_default(fs, k) ==
    IF fs[k] = ABSENT THEN Ret(DefaultData(k))
    ELSE IF fs[k] = MALFORMED THEN Raise(<<"Error tokenizing data">>)
    ELSE Ret(read_csv(fs[k]))

\* load_csv: None when the file does not exist, else read_csv of it, which
\* raises on content that is not a table.
load_csv(fs, k) ==
    IF fs[k] = ABSENT THEN Ret(None)
    ELSE IF fs[k] = MALFORMED THEN Raise(<<"Error tokenizing data">>)
    ELSE Ret(read_csv(fs[k]))

\* A write in append mode: the rows go after the ones the file holds
save_csv_append(fs, df, k, fault) ==
    IF fault = "open" THEN [exc |-> TRUE, detail |-> <<"Permission denied">>, fs |-> fs]
    ELSE [exc |-> FALSE,
          fs |-> [fs EXCEPT ![k] =
                     IF fs[k] \in {ABSENT, MALFORMED} THEN to_csv(df)
                     ELSE [cols |-> fs[k].cols, rows |-> fs[k].rows \o to_csv(df).rows]]]

\* A save that also stores the default dataset of every kind without a file
save_csv_fills_missing(fs, df, k, fault) ==
    IF fault = "open" THEN [exc |-> TRUE, detail |-> <<"Permission denied">>, fs |-> fs]
    ELSE [exc |-> FALSE,
          fs |-> [j \in DOMAIN fs |->
                     IF j = k THEN to_csv(df)
                     ELSE IF fs[j] = ABSENT THEN to_csv(DefaultData(j)) ELSE fs[j]]]

\* save_csv: mkdir(exist_ok), then to_csv over whatever the file held.
\* fault "open": the directory or the file cannot be opened for writing
\* and nothing is written.
save_csv(fs, df, k, fault) ==
    IF fault = "open" THEN [exc |-> TRUE, detail |-> <<"Permission denied">>, fs |-> fs]
    ELSE [exc |-> FALSE, fs |-> [fs EXCEPT ![k] = to_csv(df)]]

\* strftime("%Y-%m-%d %H:%M") of a modification time: the clock is not
\* modelled, every time reads as this one text
TimeText == "YYYY-MM-DD HH:MM"

\* get_last_updated: the file's modification time, or "Never"
get_last_updated(fs, k) == IF fs[k] # ABSENT THEN TimeText ELSE "Never"

\* A load that falls back on the default when the file does not parse
load_kind_data_fallback(fs, k) ==
    Bind(load_csv(fs, k),
         LAMBDA r : IF r.exc THEN Ret(DefaultData(k))
                    ELSE IF r.val # None THEN r ELSE Ret(DefaultData(k)))

\* load_<kind>_data: the file, else the default
load_kind_data(fs, k) ==
    Bind(load_csv(fs, k),
         LAMBDA r : IF r.exc THEN r
                    ELSE IF r.val # None THEN r ELSE Ret(DefaultData(k)))

\* load_all_data: the six loads; the first that raises ends it
load_all_data(fs) ==
    IF \E k \in Kinds : fs[k] = MALFORMED
    THEN Raise(<<"Error tokenizing data">>)
    ELSE Ret([k \in Kinds |-> load_kind_data(fs, k).val])

\* ------------------------------------------------------------------------
\* FRED fetchers
\* ------------------------------------------------------------------------

\* The remote side's answer to get_series: observations in date order, or
\* an error the client raises.
Date(y, m) == [year |-> y, month |-> m]

Obs(y, m, v) == [date |-> Date(y, m), value |-> v]

Series(obs) == [err |-> FALSE, obs |-> obs]

RemoteError == [err |-> TRUE, detail |-> <<"Bad Request">>]

SeriesId(k) ==
    CASE k = "gdp" -> "A191RL1Q225SBEA"
      [] k = "unemployment" -> "UNRATE"
      [] k = "sentiment" -> "UMCSENT"

\* A GDP fetcher without the Disputed = None column
NormalizeGdpNoOverride(obs) ==
    DF(<<"Quarter", "GDP">>,
       [i \in 1..Len(obs) |-> <<StrV(format_quarter(obs[i].date)), obs[i].value>>])

\* fetch_gdp_from_fred, after get_series: Quarter, GDP, Disputed = None
NormalizeGdp(obs) ==
    DF(<<"Quarter", "GDP", "Disputed">>,
       [i \in 1..Len(obs) |-> <<StrV(format_quarter(obs[i].date)), obs[i].value, Null>>])

\* fetch_consumer_sentiment_from_fred, after get_series
NormalizeSentiment(obs) ==
    DF(<<"Period", "Michigan", "Conference Board">>,
       [i \in 1..Len(obs) |-> <<StrV(format_period(obs[i].date)), obs[i].value, Null>>])

RECURSIVE SortedSeq(_)
SortedSeq(S) ==
    IF S = {} THEN <<>>
    ELSE LET lo == CHOOSE x \in S : \A y \in S : x <= y
         IN  <<lo>> \o SortedSeq(S \ {lo})

RECURSIVE SumTenths(_, _)
SumTenths(obs, y) ==
    IF obs = <<>> THEN 0
    ELSE (IF Head(obs).date.year = y THEN Head(obs).value.m ELSE 0)
         + SumTenths(Tail(obs), y)

CountYear(obs, y) == Cardinality({i \in 1..Len(obs) : obs[i].date.year = y})

\* A mean cut to one decimal instead of rounded
MeanTruncated(sum, n) == sum \div n

\* mean().round(1) of values given in tenths: the nearest tenth, a tie
\* going to the even one
MeanRound1(sum, n) ==
    LET q == sum \div n
        r == sum % n
    IN  IF 2 * r < n THEN q
        ELSE IF 2 * r > n THEN q + 1
        ELSE IF q % 2 = 0 THEN q ELSE q + 1

\* fetch_unemployment_from_fred, after get_series: one row per year in
\* ascending order, Year as text, the two cohort columns None
NormalizeUnemployment(obs) ==
    LET years == SortedSeq({obs[i].date.year : i \in 1..Len(obs)})
    IN  DF(<<"Year", "Overall", "Young Grads (22-27)", "Recent Grads">>,
           [i \in 1..Len(years) |->
               <<StrV(NatText(years[i])),
                 F1(MeanRound1(SumTenths(obs, years[i]), CountYear(obs, years[i]))),
                 Null, Null>>])

Normalize(k, obs) ==
    CASE k = "gdp" -> NormalizeGdp(obs)
      [] k = "unemployment" -> NormalizeUnemployment(obs)
      [] k = "sentiment" -> NormalizeSentiment(obs)

\* fetch_<kind>_from_fred(api_key) with the module's FRED_AVAILABLE flag
\* and the remote answer: the flag is tested first; the one request is
\* get_series.  log lists the requests made.
fetch_from_fred(k, api_key, avail, resp) ==
    IF ~avail
    THEN [exc |-> TRUE, detail |-> <<"fredapi not installed">>, log |-> <<>>]
    ELSE IF resp.err
    THEN [exc |-> TRUE, detail |-> resp.detail, log |-> << <<"request", SeriesId(k)>> >>]
    ELSE [exc |-> FALSE, val |-> Normalize(k, resp.obs),
          log |-> << <<"request", SeriesId(k)>> >>]

\* ------------------------------------------------------------------------
\* Refresh
\* ------------------------------------------------------------------------

\* A credential: None, or a string
Cred(s) == [t |-> "str", s |-> s]

\* A test of the credential against None alone: '' passes it
TruthyNotNone(key) == key # None

\* Python truthiness of a credential: None and '' are false
Truthy(key) == key.t = "str" /\ key.s # ""

\* Equality of a fresh key with a key of the prior mapping: NaN equals
\* nothing, and a text equals only the same text.
KeyEq(a, b) == ~IsNull(a) /\ a = b

\* dict(zip(existing[key], existing[col])) then Series.map: the value of
\* the last prior row holding the key, NaN when no row holds it
MapLookup(existing, keyName, colName, key) ==
    LET kj == ColIndex(existing.cols, keyName)
        cj == ColIndex(existing.cols, colName)
        hits == {i \in 1..Len(existing.rows) : KeyEq(existing.rows[i][kj], key)}
    IN  IF hits = {} THEN Null
        ELSE existing.rows[CHOOSE i \in hits : \A h \in hits : h <= i][cj]

IsOverride(k, name) == \E j \in 1..Len(OverrideCols(k)) : OverrideCols(k)[j] = name

\* An overlay that keeps the rows of the prior file the fetch did not return
OverlayKeepsPrior(k, df, existing) ==
    LET kj == ColIndex(df.cols, KeyCol(k))
    IN  [cols |-> df.cols,
         rows |-> [i \in 1..Len(df.rows) |->
                      [j \in 1..Len(df.cols) |->
                          IF IsOverride(k, df.cols[j])
                          THEN MapLookup(existing, KeyCol(k), df.cols[j], df.rows[i][kj])
                          ELSE df.rows[i][j]]]
                  \o SelectSeq(existing.rows,
                               LAMBDA r : /\ existing.cols = df.cols
                                          /\ \A i \in 1..Len(df.rows) : df.rows[i][kj] # r[kj])]

\* df[col] = df[key].map(col_map) for every override column of the kind
Overlay(k, df, existing) ==
    LET kj == ColIndex(df.cols, KeyCol(k))
    IN  [cols |-> df.cols,
         rows |-> [i \in 1..Len(df.rows) |->
                      [j \in 1..Len(df.cols) |->
                          IF IsOverride(k, df.cols[j])
                          THEN MapLookup(existing, KeyCol(k), df.cols[j], df.rows[i][kj])
                          ELSE df.rows[i][j]]]]

\* The columns of the prior file the refresh indexes, in the order it
\* does: a missing one raises KeyError
ColumnsRead(k) ==
    CASE k = "gdp" -> <<"Quarter", "Disputed">>
      [] k = "unemployment" ->
            <<"Year", "Young Grads (22-27)", "Year", "Recent Grads">>
      [] k = "sentiment" -> <<"Period", "Conference Board">>

\* The overlay step of refresh_<kind>_data on the fetched df and the
\* result of load_csv.  Only the GDP refresh tests for its override column.
Reconcile(k, df, existing) ==
    IF existing = None THEN Ret(df)
    ELSE IF k = "gdp" /\ ~HasCol(existing, "Disputed") THEN Ret(df)
    ELSE LET need == ColumnsRead(k)
             miss == {j \in 1..Len(need) : ~HasCol(existing, need[j])}
         IN  IF miss # {}
             THEN Raise(<<"'", need[CHOOSE j \in miss : \A h \in miss : j <= h], "'">>)
             ELSE Ret(Overlay(k, df, existing))

RefreshedText(k) ==
    CASE k = "gdp" -> "GDP data refreshed ("
      [] k = "unemployment" -> "Unemployment data refreshed ("
      [] k = "sentiment" -> "Sentiment data refreshed ("

UnitText(k) ==
    CASE k = "gdp" -> " quarters)"
      [] k = "unemployment" -> " years)"
      [] k = "sentiment" -> " periods)"

ErrorText(k) ==
    CASE k = "gdp" -> "Error refreshing GDP: "
      [] k = "unemployment" -> "Error refreshing unemployment: "
      [] k = "sentiment" -> "Error refreshing sentiment: "

NoKeyText == "FRED API key not provided or fredapi not installed"

\* A refresh outcome: (success, message, data)
Outcome(ok, msg, data) == [ok |-> ok, msg |-> msg, data |-> data]

\* An except clause that reports the kind and leaves out str(e)
FailedDropsDetail(k, detail, fs, log) ==
    [out |-> Outcome(FALSE, <<ErrorText(k)>>, None), fs |-> fs, log |-> log]

\* An except clause that leaves the kind's file with its header alone
FailedTruncates(k, detail, fs, log) ==
    [out |-> Outcome(FALSE, <<ErrorText(k)>> \o detail, None),
     fs |-> [fs EXCEPT ![k] = [cols |-> Schema(k), rows |-> <<>>]],
     log |-> log]

Failed(k, detail, fs, log) ==
    [out |-> Outcome(FALSE, <<ErrorText(k)>> \o detail, None), fs |-> fs, log |-> log]

\* A refresh that reads the prior file before it fetches
refresh_kind_loads_first(k, fred_api_key, avail, fs, resp, fault) ==
    IF ~(Truthy(fred_api_key) /\ avail)
    THEN [out |-> Outcome(FALSE, <<NoKeyText>>, None), fs |-> fs, log |-> <<>>]
    ELSE Bind(load_csv(fs, k), LAMBDA existing :
         IF existing.exc
         THEN Failed(k, existing.detail, fs, << <<"load", Filename(k)>> >>)
         ELSE Bind(fetch_from_fred(k, fred_api_key, avail, resp), LAMBDA f :
         IF f.exc THEN Failed(k, f.detail, fs, << <<"load", Filename(k)>> >> \o f.log)
         ELSE Bind(Reconcile(k, f.val, existing.val), LAMBDA df :
         IF df.exc
         THEN Failed(k, df.detail, fs, << <<"load", Filename(k)>> >> \o f.log)
         ELSE Bind(save_csv(fs, df.val, k, fault), LAMBDA w :
         IF w.exc
         THEN Failed(k, w.detail, w.fs,
                     << <<"load", Filename(k)>> >> \o f.log \o << <<"save", Filename(k)>> >>)
         ELSE [out |-> Outcome(TRUE,
                               <<RefreshedText(k)>> \o NatText(Len(df.val.rows))
                               \o <<UnitText(k)>>,
                               df.val),
               fs |-> w.fs,
               log |-> << <<"load", Filename(k)>> >> \o f.log
                       \o << <<"save", Filename(k)>> >>]))))

\* refresh_gdp_data / refresh_unemployment_data / refresh_sentiment_data:
\* the outcome, the files afterwards and the log of requests, file reads
\* and file writes, in order.
refresh_kind_data(k, fred_api_key, avail, fs, resp, fault) ==
    IF ~(Truthy(fred_api_key) /\ avail)
    THEN [out |-> Outcome(FALSE, <<NoKeyText>>, None), fs |-> fs, log |-> <<>>]
    ELSE Bind(fetch_from_fred(k, fred_api_key, avail, resp), LAMBDA f :
         IF f.exc THEN Failed(k, f.detail, fs, f.log)
         ELSE Bind(load_csv(fs, k), LAMBDA existing :
         IF existing.exc
         THEN Failed(k, existing.detail, fs, f.log \o << <<"load", Filename(k)>> >>)
         ELSE Bind(Reconcile(k, f.val, existing.val), LAMBDA df :
         IF df.exc
         THEN Failed(k, df.detail, fs, f.log \o << <<"load", Filename(k)>> >>)
         ELSE Bind(save_csv(fs, df.val, k, fault), LAMBDA w :
         IF w.exc
         THEN Failed(k, w.detail, w.fs,
                     f.log \o << <<"load", Filename(k)>>, <<"save", Filename(k)>> >>)
         ELSE [out |-> Outcome(TRUE,
                               <<RefreshedText(k)>> \o NatText(Len(df.val.rows))
                               \o <<UnitText(k)>>,
                               df.val),
               fs |-> w.fs,
               log |-> f.log \o << <<"load", Filename(k)>>, <<"save", Filename(k)>> >>]))))

\* base_url of fetch_gdp_from_bea, the one place a request to the second
\* provider is made; no refresh calls it
BeaEndpoint == "https://apps.bea.gov/api/data"

\* A GDP refresh that asks the second provider first when given its key
refresh_gdp_with_bea(fred_api_key, bea_api_key, avail, fs, resp, fault) ==
    Bind(refresh_kind_data("gdp", fred_api_key, avail, fs, resp, fault), LAMBDA r :
         IF Truthy(bea_api_key)
         THEN [r EXCEPT !.log = << <<"request", BeaEndpoint>> >> \o r.log]
         ELSE r)

\* refresh_gdp_data takes a second credential and does not use it
refresh_gdp_data(fred_api_key, bea_api_key, avail, fs, resp, fault) ==
    refresh_kind_data("gdp", fred_api_key, avail, fs, resp, fault)

refresh_unemployment_data(fred_api_key, avail, fs, resp, fault) ==
    refresh_kind_data("unemployment", fred_api_key, avail, fs, resp, fault)

refresh_sentiment_data(fred_api_key, avail, fs, resp, fault) ==
    refresh_kind_data("sentiment", fred_api_key, avail, fs, resp, fault)

ManualText(k) ==
    CASE k = "housing" -> "Housing data requires manual update (no free API)"
      [] k = "vehicle" -> "Vehicle data requires manual update (no free API)"

\* An orchestrator that stops at the first automated kind that fails and
\* reports the ones after it as not attempted
refresh_all_stops_at_failure(fred_api_key, bea_api_key, avail, fs, resp, fault) ==
    Bind(refresh_gdp_data(fred_api_key, bea_api_key, avail, fs,
                          resp["gdp"], fault["gdp"]), LAMBDA g :
    Bind(IF g.out.ok
         THEN refresh_unemployment_data(fred_api_key, avail, g.fs,
                                        resp["unemployment"], fault["unemployment"])
         ELSE [out |-> Outcome(FALSE, <<"not attempted">>, None), fs |-> g.fs, log |-> <<>>],
         LAMBDA u :
    Bind(IF u.out.ok
         THEN refresh_sentiment_data(fred_api_key, avail, u.fs,
                                     resp["sentiment"], fault["sentiment"])
         ELSE [out |-> Outcome(FALSE, <<"not attempted">>, None), fs |-> u.fs, log |-> <<>>],
         LAMBDA t :
        [results |-> [k \in {"gdp", "unemployment", "sentiment", "housing", "vehicle"} |->
                         CASE k = "gdp" -> g.out
                           [] k = "unemployment" -> u.out
                           [] k = "sentiment" -> t.out
                           [] OTHER -> Outcome(FALSE, <<ManualText(k)>>, None)],
         fs |-> t.fs,
         log |-> g.log \o u.log \o t.log])))

\* An orchestrator that also stores the default dataset of the two manual
\* kinds when they have no file
refresh_all_saves_manual(fred_api_key, bea_api_key, avail, fs, resp, fault) ==
    Bind(refresh_gdp_data(fred_api_key, bea_api_key, avail, fs,
                          resp["gdp"], fault["gdp"]), LAMBDA g :
    Bind(refresh_unemployment_data(fred_api_key, avail, g.fs,
                                   resp["unemployment"], fault["unemployment"]), LAMBDA u :
    Bind(refresh_sentiment_data(fred_api_key, avail, u.fs,
                                resp["sentiment"], fault["sentiment"]), LAMBDA t :
        [results |-> [k \in {"gdp", "unemployment", "sentiment", "housing", "vehicle"} |->
                         CASE k = "gdp" -> g.out
                           [] k = "unemployment" -> u.out
                           [] k = "sentiment" -> t.out
                           [] OTHER -> Outcome(FALSE, <<ManualText(k)>>, None)],
         fs |-> [k \in DOMAIN t.fs |->
                    IF k \in {"housing", "vehicle"} /\ t.fs[k] = ABSENT
                    THEN to_csv(DefaultData(k)) ELSE t.fs[k]],
         log |-> g.log \o u.log \o t.log])))

\* refresh_all_api_data: GDP, unemployment, sentiment in that order, each
\* on the files the one before left; resp and fault give each kind's
\* remote answer and write fault.
refresh_all_api_data(fred_api_key, bea_api_key, avail, fs, resp, fault) ==
    Bind(refresh_gdp_data(fred_api_key, bea_api_key, avail, fs,
                          resp["gdp"], fault["gdp"]), LAMBDA g :
    Bind(refresh_unemployment_data(fred_api_key, avail, g.fs,
                                   resp["unemployment"], fault["unemployment"]), LAMBDA u :
    Bind(refresh_sentiment_data(fred_api_key, avail, u.fs,
                                resp["sentiment"], fault["sentiment"]), LAMBDA t :
        [results |-> [k \in {"gdp", "unemployment", "sentiment", "housing", "vehicle"} |->
                         CASE k = "gdp" -> g.out
                           [] k = "unemployment" -> u.out
                           [] k = "sentiment" -> t.out
                           [] OTHER -> Outcome(FALSE, <<ManualText(k)>>, None)],
         fs |-> t.fs,
         log |-> g.log \o u.log \o t.log])))

\* ------------------------------------------------------------------------
\* Status
\* ------------------------------------------------------------------------

StatusName(k) ==
    CASE k = "gdp" -> "GDP"
      [] k = "sentiment" -> "Sentiment"
      [] k = "expectations" -> "Expectations"
      [] k = "unemployment" -> "Unemployment"
      [] k = "housing" -> "Housing"
      [] k = "vehicle" -> "Vehicle"

\* A row count that takes the header line for a row
StatusOfCountsLines(fs, k) ==
    IF fs[k] # ABSENT
    THEN [exists |-> TRUE, last_updated |-> TimeText, rows |-> Len(read_csv(fs[k]).rows) + 1]
    ELSE [exists |-> FALSE, last_updated |-> "Never", rows |-> 0]

\* get_data_status: per name exists / last_updated / rows, the rows
\* counted by reading the file; a file that does not parse raises
StatusOf(fs, k) ==
    IF fs[k] # ABSENT
    THEN [exists |-> TRUE, last_updated |-> TimeText, rows |-> Len(read_csv(fs[k]).rows)]
    ELSE [exists |-> FALSE, last_updated |-> "Never", rows |-> 0]

KindOfName(n) == CHOOSE k \in Kinds : StatusName(k) = n

get_data_status(fs) ==
    IF \E k \in Kinds : fs[k] = MALFORMED
    THEN Raise(<<"Error tokenizing data">>)
    ELSE Ret([n \in {StatusName(k) : k \in Kinds} |-> StatusOf(fs, KindOfName(n))])

\* ------------------------------------------------------------------------
\* The environment: credentials, remote answers, hand edits
\* ------------------------------------------------------------------------

\* Operations that write or try to write, per behaviour
MaxOps == 2

FredKeys == {None, Cred(""), Cred("fredkey")}

BeaKeys == {None, Cred("beakey")}

\* What the remote side may answer for each series
Remote(k) ==
    CASE k = "gdp" ->
            {Series(<<Obs(2025, 4, F1(33))>>),
             Series(<<Obs(2025, 4, F1(33)), Obs(2025, 10, F1(21))>>),
             RemoteError}
      [] k = "unemployment" ->
            {Series(<<Obs(2024, 1, F1(34)), Obs(2024, 2, F1(36)), Obs(2024, 3, F1(38))>>),
             Series(<<Obs(2024, 1, F1(34)), Obs(2024, 2, F1(36)), Obs(2024, 3, F1(38)),
                      Obs(2026, 1, F1(41))>>),
             RemoteError}
      [] k = "sentiment" ->
            {Series(<<Obs(2025, 12, F1(529))>>),
             Series(<<Obs(2025, 12, F1(529)), Obs(2026, 1, F1(540))>>),
             RemoteError}

\* The data editor (num_rows="dynamic") on the loaded dataset: cells of
\* the last row retyped, a row added, the last row deleted.  A column that
\* loaded as integers takes integers, a text column takes text.
EditValue == F1(75)

SetLastCell(df, name, v) ==
    LET n == Len(df.rows)
        j == ColIndex(df.cols, name)
    IN  [df EXCEPT !.rows[n][j] = v]

DropLast(df) == [df EXCEPT !.rows = SubSeq(df.rows, 1, Len(df.rows) - 1)]

AddRow(df, row) == [df EXCEPT !.rows = Append(df.rows, row)]

ColumnIsInt(df, j) ==
    /\ df.rows # <<>>
    /\ \A i \in 1..Len(df.rows) : df.rows[i][j].t = "int"

\* The keys typed into an added row
HandKeys(k, df) ==
    CASE k = "gdp" -> {StrV(QL(4, 25))}
      [] k = "sentiment" -> {StrV(ML(1, 26))}
      [] k = "unemployment" ->
            IF ColumnIsInt(df, 1) THEN {IntV(2026)}
            ELSE {StrV(YL(2026)), StrV(YL(2026) \o <<"e">>)}
      [] OTHER -> {}

\* An added row: the key, the override cells filled in, the rest empty
HandRow(k, df, key) ==
    [j \in 1..Len(df.cols) |->
        IF j = 1 THEN key
        ELSE IF IsOverride(k, df.cols[j]) THEN EditValue ELSE Null]

Edited(k, df) ==
    {df}
    \cup (IF df.rows # <<>> THEN {DropLast(df)} ELSE {})
    \cup (IF df.rows # <<>>
          THEN {SetLastCell(df, OverrideCols(k)[c], EditValue) :
                  c \in 1..Len(OverrideCols(k))}
          ELSE {})
    \cup {AddRow(df, HandRow(k, df, key)) : key \in HandKeys(k, df)}

\* ------------------------------------------------------------------------
\* State
\* ------------------------------------------------------------------------

VARIABLES
    files,            \* kind -> ABSENT, MALFORMED or the CSV file's content
    FRED_AVAILABLE,   \* whether the fredapi import succeeded
    written,          \* kind -> the dataset last handed to to_csv, or None
    last,             \* the operation just run: inputs, prior files, result
    ops,              \* the number of writing operations so far
    pending           \* another session's refresh between its read and its
                      \* write: what it read and what it will write, or None

vars == <<files, FRED_AVAILABLE, written, last, ops, pending>>

\* No operation's result is on display: the script waits for the user
Idle ==
    [op |-> "idle", kind |-> "", key |-> None, bea |-> None, env |-> <<>>,
     pre |-> <<>>, df |-> None, out |-> None, log |-> <<>>]

\* The record of an operation: its inputs (env: what the remote side
\* answered and the write fault, per kind), the files before it, its result
Op(op, kind, key, bea, env, df, out, log) ==
    [op |-> op, kind |-> kind, key |-> key, bea |-> bea, env |-> env,
     pre |-> files, df |-> df, out |-> out, log |-> log]

Env(k, resp, fault) == [j \in {k} |-> [resp |-> resp, fault |-> fault]]

Init ==
    /\ files = [k \in Kinds |-> ABSENT]
    /\ FRED_AVAILABLE \in BOOLEAN
    /\ written = [k \in Kinds |-> None]
    /\ last = Idle
    /\ ops = 0
    /\ pending = None

\* "Save Changes": the page loaded the kind at the start of the script
\* run, the editor's result is written.
SaveChanges(faults) ==
    /\ last = Idle
    /\ ops < MaxOps
    /\ \E k \in Kinds, fault \in faults :
          \E loaded \in {load_kind_data(files, k)} :
              /\ ~loaded.exc
              /\ \E df \in Edited(k, loaded.val) :
                    \E w \in {save_csv(files, df, k, fault)} :
                        /\ files' = w.fs
                        /\ written' = IF w.exc THEN written
                                      ELSE [written EXCEPT ![k] = df]
                        /\ last' = Op("save", k, None, None, Env(k, None, fault), df,
                                      IF w.exc THEN Raise(w.detail) ELSE Ret(None),
                                      << <<"save", Filename(k)>> >>)
    /\ ops' = ops + 1
    /\ UNCHANGED <<FRED_AVAILABLE, pending>>

\* One call of refresh_gdp_data, refresh_unemployment_data or
\* refresh_sentiment_data
RefreshKind(faults) ==
    /\ last = Idle
    /\ ops < MaxOps
    /\ \E k \in AutoKinds, key \in FredKeys, fault \in faults :
          \E bea \in IF k = "gdp" THEN BeaKeys ELSE {None}, resp \in Remote(k) :
              \E r \in {IF k = "gdp"
                        THEN refresh_gdp_data(key, bea, FRED_AVAILABLE, files, resp, fault)
                        ELSE IF k = "unemployment"
                        THEN refresh_unemployment_data(key, FRED_AVAILABLE, files, resp, fault)
                        ELSE refresh_sentiment_data(key, FRED_AVAILABLE, files, resp, fault)} :
                  /\ files' = r.fs
                  /\ written' = IF r.out.ok THEN [written EXCEPT ![k] = r.out.data]
                                ELSE written
                  /\ last' = Op("refresh", k, key, bea, Env(k, resp, fault), None,
                                r.out, r.log)
    /\ ops' = ops + 1
    /\ UNCHANGED <<FRED_AVAILABLE, pending>>

\* One call of refresh_all_api_data
RefreshAll(faults) ==
    /\ last = Idle
    /\ ops < MaxOps
    /\ \E key \in FredKeys, bea \in BeaKeys :
          \E rg \in Remote("gdp"), ru \in Remote("unemployment"),
             rs \in Remote("sentiment"), fault \in [AutoKinds -> faults] :
              \E r \in {refresh_all_api_data(key, bea, FRED_AVAILABLE, files,
                            [k \in AutoKinds |->
                                IF k = "gdp" THEN rg
                                ELSE IF k = "unemployment" THEN ru ELSE rs],
                            fault)} :
                  /\ files' = r.fs
                  /\ written' = [k \in Kinds |->
                                    IF k \in AutoKinds /\ r.results[k].ok
                                    THEN r.results[k].data ELSE written[k]]
                  /\ last' = Op("refresh_all", "", key, bea,
                                [k \in AutoKinds |->
                                    [resp |-> IF k = "gdp" THEN rg
                                              ELSE IF k = "unemployment" THEN ru ELSE rs,
                                     fault |-> fault[k]]],
                                None, r.results, r.log)
    /\ ops' = ops + 1
    /\ UNCHANGED <<FRED_AVAILABLE, pending>>

\* load_csv, load_<kind>_data, load_all_data, get_data_status: queries
LoadCsv ==
    /\ last = Idle
    /\ \E k \in Kinds :
          last' = Op("load_csv", k, None, None, <<>>, None, load_csv(files, k), <<>>)
    /\ UNCHANGED <<files, FRED_AVAILABLE, written, ops, pending>>

\* A load that writes the default it fell back on to the kind's file
LoadKindWritesDefault ==
    /\ last = Idle
    /\ \E k \in Kinds :
          /\ last' = Op("load", k, None, None, <<>>, None, load_kind_data(files, k), <<>>)
          /\ files' = IF files[k] = ABSENT
                      THEN [files EXCEPT ![k] = to_csv(DefaultData(k))]
                      ELSE files
    /\ UNCHANGED <<FRED_AVAILABLE, written, ops, pending>>

LoadKind ==
    /\ last = Idle
    /\ \E k \in Kinds :
          last' = Op("load", k, None, None, <<>>, None, load_kind_data(files, k), <<>>)
    /\ UNCHANGED <<files, FRED_AVAILABLE, written, ops, pending>>

LoadAll ==
    /\ last = Idle
    /\ last' = Op("load_all", "", None, None, <<>>, None, load_all_data(files), <<>>)
    /\ UNCHANGED <<files, FRED_AVAILABLE, written, ops, pending>>

Status ==
    /\ last = Idle
    /\ last' = Op("status", "", None, None, <<>>, None, get_data_status(files), <<>>)
    /\ UNCHANGED <<files, FRED_AVAILABLE, written, ops, pending>>

\* A direct call of one of the fetchers with a credential
Fetch ==
    /\ last = Idle
    /\ \E k \in AutoKinds :
          \E resp \in Remote(k) :
              \E f \in {fetch_from_fred(k, Cred("fredkey"), FRED_AVAILABLE, resp)} :
                  last' = Op("fetch", k, Cred("fredkey"), None, Env(k, resp, "none"), None,
                             IF f.exc THEN Raise(f.detail) ELSE Ret(f.val), f.log)
    /\ UNCHANGED <<files, FRED_AVAILABLE, written, ops, pending>>

\* st.rerun(), or the next script run: the result shown is dropped and
\* the script waits for the next action
Rerun ==
    /\ last # Idle
    /\ last' = Idle
    /\ UNCHANGED <<files, FRED_AVAILABLE, written, ops, pending>>

NoFault == {"none"}

Next ==
    \/ SaveChanges(NoFault)
    \/ RefreshKind(NoFault)
    \/ RefreshAll(NoFault)
    \/ LoadCsv
    \/ LoadKind
    \/ LoadAll
    \/ Status
    \/ Fetch
    \/ Rerun

Spec == Init /\ [][Next]_vars

\* Saves and single-kind refreshes with the faults of the environment: a
\* write that cannot open its file, and files put in the data directory by
\* hand that are not a table, or lack the key column or an override column.
Faults == {"none", "open"}

HandFiles(k) ==
    {MALFORMED,
     [cols |-> <<KeyCol(k), Schema(k)[2]>>, rows |-> <<>>],
     [cols |-> <<Schema(k)[2], Schema(k)[3]>>, rows |-> <<>>]}

Tamper ==
    /\ last = Idle
    /\ ops < MaxOps
    /\ \E k \in AutoKinds :
          \E f \in HandFiles(k) :
              /\ files' = [files EXCEPT ![k] = f]
              /\ last' = Op("tamper", k, None, None, <<>>, None, None, <<>>)
    /\ ops' = ops + 1
    /\ UNCHANGED <<FRED_AVAILABLE, written, pending>>

NextFault ==
    \/ SaveChanges(Faults)
    \/ RefreshKind(Faults)
    \/ Tamper
    \/ LoadCsv
    \/ LoadKind
    \/ LoadAll
    \/ Status
    \/ Fetch
    \/ Rerun

SpecFault == Init /\ [][NextFault]_vars

\* ------------------------------------------------------------------------
\* Properties
\* ------------------------------------------------------------------------

\* ------------------------------------------------------------------------
\* The fetchers on their own, over every month and several years
\* ------------------------------------------------------------------------

MaxMonths == 3

LabelYears == {2019, 2020, 2025, 2100, 2109}

Rates == {F1(34), F1(35), F1(36), F1(38)}

\* A GDP or sentiment series of one observation of any month
FetchLabelled ==
    /\ last = Idle
    /\ \E k \in {"gdp", "sentiment"}, y \in LabelYears, m \in 1..12 :
          \E resp \in {Series(<<Obs(y, m, F1(33))>>)} :
              \E f \in {fetch_from_fred(k, Cred("fredkey"), FRED_AVAILABLE, resp)} :
                  last' = Op("fetch", k, Cred("fredkey"), None, Env(k, resp, "none"), None,
                             IF f.exc THEN Raise(f.detail) ELSE Ret(f.val), f.log)
    /\ UNCHANGED <<files, FRED_AVAILABLE, written, ops, pending>>

\* An unemployment series of up to MaxMonths monthly observations, the
\* first s of them of 2024 and the rest of 2025
FetchMonthly ==
    /\ last = Idle
    /\ \E n \in 1..MaxMonths :
          \E s \in 0..n, rate \in [1..n -> Rates] :
              \E resp \in {Series([i \in 1..n |->
                                      Obs(IF i <= s THEN 2024 ELSE 2025, i, rate[i])])} :
                  \E f \in {fetch_from_fred("unemployment", Cred("fredkey"),
                                            FRED_AVAILABLE, resp)} :
                      last' = Op("fetch", "unemployment", Cred("fredkey"), None,
                                 Env("unemployment", resp, "none"), None,
                                 IF f.exc THEN Raise(f.detail) ELSE Ret(f.val), f.log)
    /\ UNCHANGED <<files, FRED_AVAILABLE, written, ops, pending>>

NextFetch ==
    \/ FetchLabelled
    \/ FetchMonthly
    \/ Rerun

SpecFetch == Init /\ [][NextFetch]_vars

\* ------------------------------------------------------------------------
\* Properties
\* ------------------------------------------------------------------------

\* ------------------------------------------------------------------------
\* Two sessions on the same data directory: Streamlit runs each session's
\* script in a thread of its own, and nothing in the code holds a file
\* between the load_csv and the save_csv of a refresh
\* ------------------------------------------------------------------------

\* The other session's refresh up to and including its read of the prior
\* file and the overlay
ReadForRefresh ==
    /\ pending = None
    /\ ops < MaxOps
    /\ FRED_AVAILABLE
    /\ \E k \in AutoKinds :
          \E resp \in Remote(k) :
              \E f \in {fetch_from_fred(k, Cred("fredkey"), FRED_AVAILABLE, resp)} :
                  /\ ~f.exc
                  /\ \E df \in {Reconcile(k, f.val, load_csv(files, k).val)} :
                        /\ ~df.exc
                        /\ pending' = [kind |-> k, resp |-> resp,
                                       read |-> files[k], df |-> df.val]
    /\ ops' = ops + 1
    /\ UNCHANGED <<files, FRED_AVAILABLE, written, last>>

\* The other session's refresh from its save_csv on
WriteForRefresh ==
    /\ pending # None
    /\ last = Idle
    /\ \E w \in {save_csv(files, pending.df, pending.kind, "none")} :
          /\ files' = w.fs
          /\ written' = [written EXCEPT ![pending.kind] = pending.df]
          /\ last' = [op |-> "session_refresh", kind |-> pending.kind,
                      key |-> Cred("fredkey"), bea |-> None,
                      env |-> Env(pending.kind, pending.resp, "none"),
                      pre |-> files, df |-> None,
                      out |-> Outcome(TRUE,
                                      <<RefreshedText(pending.kind)>>
                                      \o NatText(Len(pending.df.rows))
                                      \o <<UnitText(pending.kind)>>,
                                      pending.df),
                      log |-> << <<"request", SeriesId(pending.kind)>>,
                                 <<"load", Filename(pending.kind)>>,
                                 <<"save", Filename(pending.kind)>> >>,
                      read |-> pending.read]
    /\ pending' = None
    /\ UNCHANGED <<FRED_AVAILABLE, ops>>

NextSessions ==
    \/ SaveChanges(NoFault)
    \/ ReadForRefresh
    \/ WriteForRefresh
    \/ Rerun

SpecSessions == Init /\ [][NextSessions]_vars

\* The refresh of kind k that the last operation ran, if it ran one
Attempted(k) ==
    \/ last.op = "refresh" /\ last.kind = k
    \/ last.op = "refresh_all" /\ k \in AutoKinds

OutcomeOf(k) == IF last.op = "refresh" THEN last.out ELSE last.out[k]

Succeeded(k) == Attempted(k) /\ OutcomeOf(k).ok

IsOutcome(o) == DOMAIN o = {"ok", "msg", "data"}

IsTable(f) == DOMAIN f = {"cols", "rows"}

\* The rows of a file whose field in the named column is the given text
RowsWith(f, name, text) ==
    IF ~IsTable(f) \/ ~HasCol(f, name) THEN {}
    ELSE {h \in 1..Len(f.rows) : f.rows[h][ColIndex(f.cols, name)] = text}

Requests(log) == SelectSeq(log, LAMBDA e : e[1] = "request")

\* C1: when a refresh of an automated kind succeeds, every row of the file
\* it writes whose key was in the file before carries, in each override
\* column, the field that key had before, and every row whose key was not
\* in the file before has the override fields empty.
C1_OverridesPreserved ==
    \A k \in AutoKinds :
        Succeeded(k) =>
            \A i \in 1..Len(files[k].rows), c \in 1..Len(OverrideCols(k)) :
                LET post == files[k]
                    pre == last.pre[k]
                    name == OverrideCols(k)[c]
                    key == post.rows[i][ColIndex(post.cols, KeyCol(k))]
                    field == post.rows[i][ColIndex(post.cols, name)]
                    prior == RowsWith(pre, KeyCol(k), key)
                IN  IF prior # {}
                    THEN \E h \in prior : field = pre.rows[h][ColIndex(pre.cols, name)]
                    ELSE field = <<>>

\* The part of C1 that the code keeps: the same for the kinds keyed by a
\* quarter or month label
C1_LabelKeyedPreserved ==
    \A k \in {"gdp", "sentiment"} :
        Succeeded(k) =>
            \A i \in 1..Len(files[k].rows), c \in 1..Len(OverrideCols(k)) :
                LET post == files[k]
                    pre == last.pre[k]
                    name == OverrideCols(k)[c]
                    key == post.rows[i][ColIndex(post.cols, KeyCol(k))]
                    field == post.rows[i][ColIndex(post.cols, name)]
                    prior == RowsWith(pre, KeyCol(k), key)
                IN  IF prior # {}
                    THEN \E h \in prior : field = pre.rows[h][ColIndex(pre.cols, name)]
                    ELSE field = <<>>

\* A GDP refresh that carried a filled-in override over
C1_LabelKeyedWitness ==
    /\ Succeeded("gdp")
    /\ \E i \in 1..Len(files["gdp"].rows) :
          /\ files["gdp"].rows[i][3] # <<>>
          /\ RowsWith(last.pre["gdp"], "Quarter", files["gdp"].rows[i][1]) # {}

\* C2: refresh_all_api_data returns one outcome for each of gdp,
\* unemployment, sentiment, housing and vehicle whatever fails; with a
\* credential and the capability it requests the three series in the
\* order GDP, unemployment, sentiment, all three whichever of them fail;
\* and each automated kind's outcome is the one its own refresh gives on
\* the files as they were, whatever the outcomes of the other kinds.
C2_AllAttemptedInOrder ==
    last.op = "refresh_all" =>
        /\ DOMAIN last.out = {"gdp", "unemployment", "sentiment", "housing", "vehicle"}
        /\ \A k \in DOMAIN last.out : IsOutcome(last.out[k])
        /\ (Truthy(last.key) /\ FRED_AVAILABLE) =>
              Requests(last.log) = << <<"request", SeriesId("gdp")>>,
                                      <<"request", SeriesId("unemployment")>>,
                                      <<"request", SeriesId("sentiment")>> >>
        /\ \A k \in AutoKinds :
              last.out[k] = refresh_kind_data(k, last.key, FRED_AVAILABLE, last.pre,
                                              last.env[k].resp, last.env[k].fault).out

\* GDP refreshed, the unemployment fetch raised, sentiment refreshed after it
C2_Witness ==
    /\ last.op = "refresh_all"
    /\ last.out["gdp"].ok
    /\ ~last.out["unemployment"].ok
    /\ last.out["unemployment"].msg[1] = "Error refreshing unemployment: "
    /\ last.out["sentiment"].ok

\* C3: with no credential (None or '') or without the capability, every
\* refresh of an automated kind, alone or in refresh_all_api_data, gives
\* (False, reason, None) and the whole call makes no request; and a
\* fetcher called without the capability raises before any request.
C3_NoCredentialNoRequest ==
    /\ (last.op \in {"refresh", "refresh_all"}
        /\ (last.key \in {None, Cred("")} \/ ~FRED_AVAILABLE)) =>
          /\ Requests(last.log) = <<>>
          /\ \A k \in AutoKinds :
                Attempted(k) =>
                    /\ IsOutcome(OutcomeOf(k))
                    /\ ~OutcomeOf(k).ok
                    /\ OutcomeOf(k).data = None
    /\ (last.op = "fetch" /\ ~FRED_AVAILABLE) =>
          /\ last.out.exc
          /\ Requests(last.log) = <<>>

\* refresh_all_api_data called with the empty credential, fredapi installed
C3_Witness ==
    /\ last.op = "refresh_all"
    /\ last.key = Cred("")
    /\ FRED_AVAILABLE
    /\ \A k \in AutoKinds : ~last.out[k].ok

\* The exception the steps of a refresh raise, if one does: str(e) of the
\* first of fetch, load of the prior file, overlay, write that raises
FirstException(k, key, avail, fs, resp, fault) ==
    Bind(fetch_from_fred(k, key, avail, resp), LAMBDA f :
    IF f.exc THEN Raise(f.detail)
    ELSE Bind(load_csv(fs, k), LAMBDA existing :
    IF existing.exc THEN Raise(existing.detail)
    ELSE Bind(Reconcile(k, f.val, existing.val), LAMBDA df :
    IF df.exc THEN Raise(df.detail)
    ELSE Bind(save_csv(fs, df.val, k, fault), LAMBDA w :
    IF w.exc THEN Raise(w.detail) ELSE Ret(None)))))

\* C4: a refresh of an automated kind always returns an outcome; when a
\* step of it raises (the fetch, the load of the prior file, the overlay,
\* the write), the outcome is (False, "Error refreshing <kind>: " followed
\* by the exception's message, None).
C4_ExceptionsBecomeOutcomes ==
    \A k \in AutoKinds :
        Attempted(k) =>
            /\ IsOutcome(OutcomeOf(k))
            /\ (Truthy(last.key) /\ FRED_AVAILABLE) =>
                  LET e == FirstException(k, last.key, FRED_AVAILABLE, last.pre,
                                          last.env[k].resp, last.env[k].fault)
                  IN  e.exc => OutcomeOf(k) =
                                  Outcome(FALSE, <<ErrorText(k)>> \o e.detail, None)

\* Each step's exception reached: a KeyError of the overlay here
C4_Witness ==
    /\ Attempted("unemployment")
    /\ OutcomeOf("unemployment") =
          Outcome(FALSE, <<"Error refreshing unemployment: ", "'",
                           "Young Grads (22-27)", "'">>, None)

C4_WitnessWrite ==
    /\ Attempted("gdp")
    /\ OutcomeOf("gdp") = Outcome(FALSE, <<"Error refreshing GDP: ", "Permission denied">>, None)

C4_WitnessParse ==
    /\ Attempted("sentiment")
    /\ OutcomeOf("sentiment") =
          Outcome(FALSE, <<"Error refreshing sentiment: ", "Error tokenizing data">>, None)

\* C5: a refresh with a credential, the capability and a remote answer
\* succeeds; a successful refresh returns (True, "<Kind> data refreshed
\* (<n> <unit>)", dataset) with n the number of rows of the dataset, and
\* the kind's file is then that dataset as written by to_csv; an outcome
\* carries a dataset exactly when it succeeded.
C5_SuccessOutcome ==
    \A k \in AutoKinds :
        Attempted(k) =>
            LET o == OutcomeOf(k)
            IN  /\ (Truthy(last.key) /\ FRED_AVAILABLE /\ ~last.env[k].resp.err) => o.ok
                /\ o.ok => /\ o.msg = <<RefreshedText(k)>> \o NatText(Len(o.data.rows))
                                      \o <<UnitText(k)>>
                           /\ files[k] = to_csv(o.data)
                /\ o.ok <=> o.data # None

\* A sentiment refresh of two periods over an existing file
C5_Witness ==
    /\ Succeeded("sentiment")
    /\ Len(OutcomeOf("sentiment").data.rows) = 2
    /\ last.pre["sentiment"] # ABSENT

\* C6: after save_csv(df, file), load_csv(file) returns df: the same
\* columns in order, the same rows in order, the same cell values, a
\* missing cell as missing.
C6_SaveLoadRoundTrip ==
    (last.op = "save" /\ ~last.out.exc) =>
        load_csv(files, last.kind) = Ret(last.df)

\* The part of C6 that the code keeps: the columns, the number of rows
\* and every field as written come back
C6_FieldsRoundTrip ==
    (last.op = "save" /\ ~last.out.exc) =>
        to_csv(load_csv(files, last.kind).val) = to_csv(last.df)

\* C7: the overlay of a refresh gives every override cell of every fetched
\* row the prior file's value for the row's key when the prior file has
\* that key, and null when the key is new or there is no prior file: a
\* prior key "2024" with 7.5 gives 7.5 on the fetched row keyed "2024".
\* The prior dataset is the one load_csv returns for the file; a key is
\* the same key when it reads the same.
C7_OverlayByKey ==
    \A k \in AutoKinds :
        Succeeded(k) =>
            LET fresh == OutcomeOf(k).data
                prior == load_csv(last.pre, k).val
                kf    == ColIndex(fresh.cols, KeyCol(k))
            IN  \A i \in 1..Len(fresh.rows) :
                  \A j \in 1..Len(fresh.cols) :
                    IsOverride(k, fresh.cols[j]) =>
                        LET same == IF prior # None /\ HasCol(prior, KeyCol(k))
                                       /\ HasCol(prior, fresh.cols[j])
                                    THEN {h \in 1..Len(prior.rows) :
                                            CellText(prior.rows[h][ColIndex(prior.cols, KeyCol(k))])
                                              = CellText(fresh.rows[i][kf])}
                                    ELSE {}
                        IN  IF same # {}
                            THEN \E h \in same :
                                   fresh.rows[i][j]
                                     = prior.rows[h][ColIndex(prior.cols, fresh.cols[j])]
                            ELSE IsNull(fresh.rows[i][j])

\* The overlay as the code computes it: a prior key is found when it is
\* the same value of the same type, the last such row's value is taken
C7_OverlayByTypedKey ==
    \A k \in AutoKinds :
        Succeeded(k) =>
            LET fresh == OutcomeOf(k).data
                prior == load_csv(last.pre, k).val
                kf    == ColIndex(fresh.cols, KeyCol(k))
            IN  \A i \in 1..Len(fresh.rows) :
                  \A j \in 1..Len(fresh.cols) :
                    IsOverride(k, fresh.cols[j]) =>
                        LET same == IF prior # None /\ HasCol(prior, KeyCol(k))
                                       /\ HasCol(prior, fresh.cols[j])
                                    THEN {h \in 1..Len(prior.rows) :
                                            /\ ~IsNull(fresh.rows[i][kf])
                                            /\ prior.rows[h][ColIndex(prior.cols, KeyCol(k))]
                                                 = fresh.rows[i][kf]}
                                    ELSE {}
                        IN  IF same # {}
                            THEN fresh.rows[i][j]
                                   = prior.rows[CHOOSE h \in same : \A g \in same : g <= h]
                                               [ColIndex(prior.cols, fresh.cols[j])]
                            ELSE IsNull(fresh.rows[i][j])

\* An unemployment refresh over a file whose year column was read as text
\* carries the override of the year it fetched
C7_TypedKeyWitness ==
    /\ Succeeded("unemployment")
    /\ \E i \in 1..Len(OutcomeOf("unemployment").data.rows) :
          ~IsNull(OutcomeOf("unemployment").data.rows[i][3])

\* C8: save_csv replaces the kind's file wholesale, so after any sequence
\* of saves and successful refreshes the file is the last dataset written
\* and load_csv returns that dataset.
C8_LoadReturnsLastWrite ==
    \A k \in Kinds :
        written[k] # None =>
            /\ files[k] = to_csv(written[k])
            /\ load_csv(files, k) = Ret(written[k])

\* The part of C8 the code keeps: the file is the last dataset written
\* and nothing of what it held before
C8_FileIsLastWrite ==
    \A k \in Kinds : written[k] # None => files[k] = to_csv(written[k])

\* C9: load_<kind>_data returns the dataset read from the kind's file when
\* the file exists and the kind's default dataset when it does not, and
\* does not raise; load_csv returns None for a missing file; load_all_data
\* returns the six of them; none of the three changes a file, and the file
\* of a kind never saved or refreshed stays absent.
C9_LoadsDoNotWrite ==
    /\ last.op = "load" =>
          last.out = Ret(IF last.pre[last.kind] = ABSENT
                         THEN DefaultData(last.kind)
                         ELSE read_csv(last.pre[last.kind]))
    /\ last.op = "load_csv" =>
          last.out = Ret(IF last.pre[last.kind] = ABSENT
                         THEN None
                         ELSE read_csv(last.pre[last.kind]))
    /\ last.op = "load_all" =>
          /\ ~last.out.exc
          /\ DOMAIN last.out.val = Kinds
          /\ \A k \in Kinds :
                last.out.val[k] = IF last.pre[k] = ABSENT
                                  THEN DefaultData(k)
                                  ELSE read_csv(last.pre[k])
    /\ last.op \in {"load", "load_csv", "load_all"} => files = last.pre
    /\ \A k \in Kinds : written[k] = None => files[k] = ABSENT

\* The default came back from a load of a kind never written while another
\* kind's file exists, and no file appeared for it
C9_Witness ==
    /\ last.op = "load"
    /\ last.pre[last.kind] = ABSENT
    /\ last.out = Ret(DefaultData(last.kind))
    /\ files[last.kind] = ABSENT
    /\ \E k \in Kinds : files[k] # ABSENT

C9_WitnessPersisted ==
    /\ last.op = "load"
    /\ IsTable(last.pre[last.kind])
    /\ last.out.val # DefaultData(last.kind)

\* C10: get_data_status reports for each of the six kinds exists False,
\* last_updated "Never" and rows 0 exactly when the kind's file was never
\* written, and otherwise exists True, a time and rows equal to the number
\* of rows of the dataset last written to the file.
C10_StatusReportsLastWrite ==
    last.op = "status" =>
        /\ ~last.out.exc
        /\ DOMAIN last.out.val = {StatusName(k) : k \in Kinds}
        /\ \A k \in Kinds :
              LET s == last.out.val[StatusName(k)]
              IN  IF written[k] = None
                  THEN s = [exists |-> FALSE, last_updated |-> "Never", rows |-> 0]
                  ELSE /\ s.exists
                       /\ s.last_updated # "Never"
                       /\ s.rows = Len(written[k].rows)

\* A status taken with one kind refreshed, one saved and one never written
C10_Witness ==
    /\ last.op = "status"
    /\ \E k \in Kinds : written[k] = None /\ ~last.out.val[StatusName(k)].exists
    /\ \E k \in Kinds : written[k] # None /\ last.out.val[StatusName(k)].rows = Len(written[k].rows)
                        /\ Len(written[k].rows) # Len(DefaultData(k).rows)

\* C11: refresh_all_api_data gives housing and vehicle the fixed outcome
\* (False, "<Kind> data requires manual update (no free API)", None)
\* whatever the credentials and the files; it requests nothing but the
\* three automated series and neither reads nor writes the two kinds' files.
C11_ManualKindsFixedOutcome ==
    last.op = "refresh_all" =>
        /\ last.out["housing"] =
              Outcome(FALSE, <<"Housing data requires manual update (no free API)">>, None)
        /\ last.out["vehicle"] =
              Outcome(FALSE, <<"Vehicle data requires manual update (no free API)">>, None)
        /\ files["housing"] = last.pre["housing"]
        /\ files["vehicle"] = last.pre["vehicle"]
        /\ \A i \in 1..Len(last.log) :
              /\ last.log[i][2] \notin {Filename("housing"), Filename("vehicle")}
              /\ last.log[i][1] = "request" =>
                    last.log[i][2] \in {SeriesId(k) : k \in AutoKinds}

\* The orchestrator ran with a credential while a housing file existed and
\* the vehicle file did not
C11_Witness ==
    /\ last.op = "refresh_all"
    /\ Truthy(last.key) /\ FRED_AVAILABLE
    /\ last.pre["housing"] # ABSENT
    /\ files["vehicle"] = ABSENT
    /\ ~last.out["housing"].ok /\ ~last.out["vehicle"].ok

\* C12: reconciliation is idempotent: a second successful refresh of a
\* kind, made right after a successful one and fetching the same data,
\* leaves the kind's file as the first one left it.
C12_RefreshIdempotent ==
    \A k \in AutoKinds :
        Succeeded(k) =>
            refresh_kind_data(k, last.key, FRED_AVAILABLE, files,
                              last.env[k].resp, "none").fs[k] = files[k]

\* The part of C12 the code keeps: the overlay of a refreshed dataset on
\* itself, both as held in memory, is that dataset
C12_OverlayIdempotent ==
    \A k \in AutoKinds :
        Succeeded(k) =>
            Reconcile(k, OutcomeOf(k).data, OutcomeOf(k).data) = Ret(OutcomeOf(k).data)

\* C13: after a successful refresh of an automated kind its file has
\* exactly the kind's column names in the fixed order, also when the
\* override columns are entirely null.
C13_ColumnsStable ==
    /\ Succeeded("gdp") =>
          /\ files["gdp"].cols = <<"Quarter", "GDP", "Disputed">>
          /\ OutcomeOf("gdp").data.cols = <<"Quarter", "GDP", "Disputed">>
    /\ Succeeded("unemployment") =>
          /\ files["unemployment"].cols =
                <<"Year", "Overall", "Young Grads (22-27)", "Recent Grads">>
          /\ OutcomeOf("unemployment").data.cols =
                <<"Year", "Overall", "Young Grads (22-27)", "Recent Grads">>
    /\ Succeeded("sentiment") =>
          /\ files["sentiment"].cols = <<"Period", "Michigan", "Conference Board">>
          /\ OutcomeOf("sentiment").data.cols = <<"Period", "Michigan", "Conference Board">>
    /\ \A k \in AutoKinds :
          Succeeded(k) =>
              \A i \in 1..Len(files[k].rows) : Len(files[k].rows[i]) = Len(files[k].cols)

\* A second refresh in a row of GDP, over a file a refresh wrote, with
\* the Disputed column empty in every row
C13_Witness ==
    /\ Succeeded("gdp")
    /\ IsTable(last.pre["gdp"])
    /\ written["gdp"].rows # <<>>
    /\ \A i \in 1..Len(files["gdp"].rows) : files["gdp"].rows[i][3] = <<>>
    /\ \A i \in 1..Len(last.pre["gdp"].rows) : last.pre["gdp"].rows[i][3] = <<>>

\* C14: a load of a kind whose file exists and does not parse raises the
\* parse error to its caller, it returns neither None nor the default
\* dataset; the file is left as it was, and a load of a kind whose own
\* file parses or is absent does not raise whatever the other files hold.
\* load_all_data, which loads the six kinds, raises when one of them does.
C14_ParseErrorSurfaces ==
    /\ last.op \in {"load", "load_csv"} =>
          /\ last.out.exc <=> last.pre[last.kind] = MALFORMED
          /\ last.out.exc => last.out = Raise(<<"Error tokenizing data">>)
    /\ last.op = "load_all" =>
          /\ last.out.exc <=> \E k \in Kinds : last.pre[k] = MALFORMED
          /\ last.out.exc => last.out = Raise(<<"Error tokenizing data">>)
    /\ last.op \in {"load", "load_csv", "load_all"} => files = last.pre

\* load_<kind>_data raised on an unparseable file
C14_Witness ==
    /\ last.op = "load"
    /\ last.pre[last.kind] = MALFORMED
    /\ last.out.exc
    /\ files[last.kind] = MALFORMED

\* A kind loaded while another kind's file was unparseable
C14_WitnessOtherKind ==
    /\ last.op = "load"
    /\ ~last.out.exc
    /\ \E k \in Kinds : k # last.kind /\ last.pre[k] = MALFORMED

\* C15: the GDP fetcher labels an observation of month m and year y
\* "Q<N> <YY>", N being 1 for months 1-3, 2 for 4-6, 3 for 7-9 and 4 for
\* 10-12, which is ((m-1)//3)+1, and YY the last two digits of y.
C15_QuarterLabel ==
    (last.op = "fetch" /\ last.kind = "gdp" /\ ~last.out.exc) =>
        LET obs  == last.env["gdp"].resp.obs
            rows == last.out.val.rows
        IN  /\ Len(rows) = Len(obs)
            /\ \A i \in 1..Len(obs) :
                  LET m == obs[i].date.month
                      y == obs[i].date.year
                      N == CASE m \in 1..3 -> 1
                             [] m \in 4..6 -> 2
                             [] m \in 7..9 -> 3
                             [] m \in 10..12 -> 4
                  IN  /\ N = ((m - 1) \div 3) + 1
                      /\ rows[i][1] = StrV(<<"Q", DigitChar(N), " ",
                                             DigitChar((y % 100) \div 10),
                                             DigitChar(y % 10)>>)

\* February 2025 came out as "Q1 25"
C15_Witness ==
    /\ last.op = "fetch" /\ last.kind = "gdp" /\ ~last.out.exc
    /\ last.env["gdp"].resp.obs[1].date = Date(2025, 2)
    /\ last.out.val.rows[1][1] = StrV(<<"Q", "1", " ", "2", "5">>)

\* November 2025 came out as "Q4 25"
C15_WitnessNovember ==
    /\ last.op = "fetch" /\ last.kind = "gdp" /\ ~last.out.exc
    /\ last.env["gdp"].resp.obs[1].date = Date(2025, 11)
    /\ last.out.val.rows[1][1] = StrV(<<"Q", "4", " ", "2", "5">>)

\* C16: the unemployment fetcher returns exactly one row for each year
\* that has an observation, keyed by the four digits of the year as text,
\* whose Overall is a float of one decimal nearest to the mean of the
\* year's monthly values; 3.4, 3.6, 3.8 of 2024 give 3.6.
C16_AnnualMean ==
    (last.op = "fetch" /\ last.kind = "unemployment" /\ ~last.out.exc) =>
        LET obs   == last.env["unemployment"].resp.obs
            rows  == last.out.val.rows
            years == {obs[i].date.year : i \in 1..Len(obs)}
        IN  /\ Len(rows) = Cardinality(years)
            /\ \A y \in years :
                  LET mine == {i \in 1..Len(obs) : obs[i].date.year = y}
                      n   == Cardinality(mine)
                      sum == SumTenths(obs, y)
                      at  == {i \in 1..Len(rows) :
                                /\ rows[i][1].t = "str"
                                /\ Len(rows[i][1].s) = 4
                                /\ NatVal(rows[i][1].s) = y}
                  IN  /\ Cardinality(at) = 1
                      /\ \A i \in at :
                            /\ rows[i][2].t = "float"
                            /\ rows[i][2].e = 1
                            /\ 2 * Abs(n * rows[i][2].m - sum) <= n

\* 3.4, 3.6, 3.8 of 2024 gave the one row "2024", 3.6
C16_Witness ==
    /\ last.op = "fetch" /\ last.kind = "unemployment" /\ ~last.out.exc
    /\ last.env["unemployment"].resp.obs =
          <<Obs(2024, 1, F1(34)), Obs(2024, 2, F1(36)), Obs(2024, 3, F1(38))>>
    /\ Len(last.out.val.rows) = 1
    /\ last.out.val.rows[1][1] = StrV(<<"2", "0", "2", "4">>)
    /\ last.out.val.rows[1][2] = FloatV(36, 1)

\* A mean that falls between two tenths: 3.4, 3.5, 3.8 gave 3.6
C16_WitnessRoundedUp ==
    /\ last.op = "fetch" /\ last.kind = "unemployment" /\ ~last.out.exc
    /\ \E i \in 1..Len(last.out.val.rows) :
          3 * last.out.val.rows[i][2].m
            > SumTenths(last.env["unemployment"].resp.obs,
                        NatVal(last.out.val.rows[i][1].s))
    /\ Len(last.env["unemployment"].resp.obs) = 3
    /\ Len(last.out.val.rows) = 1

\* C17: in a successful refresh of a kind the request for the kind's
\* series comes first, then the one read of the kind's file, then the one
\* write of it, which is the last step; and every override value written
\* is one that read returned.
C17_StepsInOrder ==
    \A k \in AutoKinds :
        Succeeded(k) =>
            LET mine  == SelectSeq(last.log,
                                   LAMBDA e : e[2] \in {SeriesId(k), Filename(k)})
                prior == load_csv(last.pre, k).val
                data  == OutcomeOf(k).data
            IN  /\ mine = << <<"request", SeriesId(k)>>,
                             <<"load", Filename(k)>>,
                             <<"save", Filename(k)>> >>
                /\ files[k] = to_csv(data)
                /\ \A i \in 1..Len(data.rows) :
                      \A j \in 1..Len(data.cols) :
                          (IsOverride(k, data.cols[j]) /\ ~IsNull(data.rows[i][j])) =>
                              /\ prior # None
                              /\ \E h \in 1..Len(prior.rows) :
                                    prior.rows[h][ColIndex(prior.cols, data.cols[j])]
                                      = data.rows[i][j]

\* A sentiment refresh inside refresh_all_api_data, after the other two
\* kinds' steps, that wrote a Conference Board value it had read
C17_Witness ==
    /\ last.op = "refresh_all"
    /\ Succeeded("sentiment")
    /\ Len(last.log) > 3
    /\ \E i \in 1..Len(files["sentiment"].rows) : files["sentiment"].rows[i][3] # <<>>

\* C18: the file a successful refresh writes has the fetched rows, as many
\* and in the fetched order, every column that is not an override column
\* holding the fetched value whatever the prior file held; a row of the
\* prior file whose key was not fetched is not in it.
C18_FetchedRowsPassThrough ==
    \A k \in AutoKinds :
        Succeeded(k) =>
            LET fetched == Normalize(k, last.env[k].resp.obs)
                data    == OutcomeOf(k).data
                keys    == {CellText(fetched.rows[i][1]) : i \in 1..Len(fetched.rows)}
            IN  /\ Len(data.rows) = Len(fetched.rows)
                /\ Len(files[k].rows) = Len(fetched.rows)
                /\ \A i \in 1..Len(fetched.rows) :
                      \A j \in 1..Len(fetched.cols) :
                          ~IsOverride(k, fetched.cols[j]) =>
                              /\ data.rows[i][j] = fetched.rows[i][j]
                              /\ files[k].rows[i][j] = CellText(fetched.rows[i][j])
                /\ IsTable(last.pre[k]) =>
                      \A h \in 1..Len(last.pre[k].rows) :
                          last.pre[k].rows[h][1] \notin keys =>
                              RowsWith(files[k], KeyCol(k), last.pre[k].rows[h][1]) = {}

\* A GDP refresh over a file holding the hand-added quarter Q4 25, which
\* the fetch did not return: the refreshed file does not have it
C18_Witness ==
    /\ Succeeded("gdp")
    /\ RowsWith(last.pre["gdp"], "Quarter", QL(4, 25)) # {}
    /\ RowsWith(files["gdp"], "Quarter", QL(4, 25)) = {}
    /\ files["gdp"].rows # <<>>

\* C19: a successful refresh of a kind that has no file writes a file
\* whose override cells are all empty and returns a dataset whose override
\* cells are all null: the override values of the kind's default dataset
\* (Disputed 1.0 for Q2 25) are not carried into it.
C19_NoPriorNoOverrides ==
    \A k \in AutoKinds :
        (Succeeded(k) /\ last.pre[k] = ABSENT) =>
            /\ IsTable(files[k])
            /\ \A i \in 1..Len(files[k].rows) :
                  \A j \in 1..Len(files[k].cols) :
                      IsOverride(k, files[k].cols[j]) =>
                          /\ files[k].rows[i][j] = <<>>
                          /\ IsNull(OutcomeOf(k).data.rows[i][j])

\* GDP refreshed with no file: the row Q2 25, which the default dataset
\* gives a Disputed value, has none
C19_Witness ==
    /\ Succeeded("gdp")
    /\ last.pre["gdp"] = ABSENT
    /\ \E h \in 1..Len(get_default_gdp_data.rows) :
          /\ get_default_gdp_data.rows[h][1] = StrV(QL(2, 25))
          /\ ~IsNull(get_default_gdp_data.rows[h][3])
    /\ \E i \in 1..Len(files["gdp"].rows) :
          /\ files["gdp"].rows[i][1] = QL(2, 25)
          /\ files["gdp"].rows[i][3] = <<>>

\* C20: between a refresh's read of the kind's file and its write of it
\* no save or refresh writes that file, also when several sessions act on
\* the same files: the file a refresh overwrites is the file it read, so
\* an override saved by hand is not overwritten by a refresh that read the
\* file before the save.
C20_NoLostUpdate ==
    last.op = "session_refresh" => last.pre[last.kind] = last.read

\* C21: a refresh that fails for want of a credential or of the
\* capability, on a fetch error, on a prior file that does not parse or on
\* a prior file that lacks a column it indexes leaves the kind's file as it
\* was, absent if it was absent, and has not called save_csv; called on
\* its own it leaves every file as it was.
C21_FailedRefreshWritesNothing ==
    \A k \in AutoKinds :
        (Attempted(k) /\ ~OutcomeOf(k).ok /\ last.env[k].fault = "none") =>
            /\ files[k] = last.pre[k]
            /\ \A i \in 1..Len(last.log) : last.log[i] # <<"save", Filename(k)>>
            /\ last.op = "refresh" => files = last.pre

\* A refresh failed on a prior file lacking a column and left that file
C21_Witness ==
    /\ last.op = "refresh"
    /\ ~last.out.ok
    /\ Truthy(last.key) /\ FRED_AVAILABLE
    /\ ~last.env[last.kind].resp.err
    /\ last.env[last.kind].fault = "none"
    /\ IsTable(last.pre[last.kind])
    /\ files[last.kind] = last.pre[last.kind]

\* A refresh failed on a fetch error with no file, and no file appeared
C21_WitnessFetchError ==
    /\ last.op = "refresh"
    /\ ~last.out.ok
    /\ Truthy(last.key) /\ FRED_AVAILABLE
    /\ last.env[last.kind].resp.err
    /\ files[last.kind] = ABSENT

\* C22: a refresh of one kind reads and writes that kind's file alone, the
\* files of the other five kinds are as they were; refresh_all_api_data
\* leaves the expectations, housing and vehicle files as they were, and
\* the file of each automated kind changes only when that kind's refresh
\* succeeded.
C22_RefreshWritesOwnFile ==
    /\ last.op = "refresh" =>
          /\ \A j \in Kinds \ {last.kind} : files[j] = last.pre[j]
          /\ \A i \in 1..Len(last.log) :
                last.log[i][1] \in {"load", "save"} =>
                    last.log[i][2] = Filename(last.kind)
    /\ last.op = "refresh_all" =>
          /\ \A j \in {"expectations", "housing", "vehicle"} : files[j] = last.pre[j]
          /\ \A k \in AutoKinds : ~last.out[k].ok => files[k] = last.pre[k]
          /\ \A i \in 1..Len(last.log) :
                last.log[i][1] \in {"load", "save"} =>
                    last.log[i][2] \in {Filename(k) : k \in AutoKinds}

\* GDP refreshed on its own while another automated kind had a file
C22_Witness ==
    /\ last.op = "refresh"
    /\ last.kind = "gdp"
    /\ last.out.ok
    /\ files["gdp"] # last.pre["gdp"]
    /\ \E j \in {"unemployment", "sentiment"} :
          IsTable(last.pre[j]) /\ files[j] = last.pre[j]

\* The orchestrator refreshed the three kinds while the expectations file
\* existed and the housing and vehicle files did not
C22_WitnessAll ==
    /\ last.op = "refresh_all"
    /\ \A k \in AutoKinds : last.out[k].ok
    /\ IsTable(files["expectations"])
    /\ files["housing"] = ABSENT /\ files["vehicle"] = ABSENT

\* C23: refresh_gdp_data and refresh_all_api_data give the same outcomes,
\* the same files and the same requests whatever the BEA credential:
\* called from the same files with the same FRED credential and the same
\* remote answers and any other bea_api_key they end as the call made did;
\* and no request goes to the BEA endpoint.
C23_BeaKeyIgnored ==
    /\ (last.op = "refresh" /\ last.kind = "gdp") =>
          \A b \in BeaKeys :
              refresh_gdp_data(last.key, b, FRED_AVAILABLE, last.pre,
                               last.env["gdp"].resp, last.env["gdp"].fault)
                = [out |-> last.out, fs |-> files, log |-> last.log]
    /\ last.op = "refresh_all" =>
          \A b \in BeaKeys :
              refresh_all_api_data(last.key, b, FRED_AVAILABLE, last.pre,
                                   [k \in AutoKinds |-> last.env[k].resp],
                                   [k \in AutoKinds |-> last.env[k].fault])
                = [results |-> last.out, fs |-> files, log |-> last.log]
    /\ last.op \in {"refresh", "refresh_all"} =>
          \A i \in 1..Len(last.log) :
              last.log[i][1] = "request" =>
                  /\ last.log[i][2] # BeaEndpoint
                  /\ last.log[i][2] \in {SeriesId(k) : k \in AutoKinds}

\* GDP refreshed with a BEA key given: the one request was the FRED series
C23_Witness ==
    /\ last.op = "refresh" /\ last.kind = "gdp"
    /\ last.bea = Cred("beakey")
    /\ last.out.ok
    /\ Requests(last.log) = << <<"request", SeriesId("gdp")>> >>

\* The orchestrator refreshed GDP with no BEA key given
C23_WitnessAll ==
    /\ last.op = "refresh_all"
    /\ last.bea = None
    /\ last.out["gdp"].ok

====
